---------------------------- MODULE Spec2Model ----------------------------
(***************************************************************************)
(* Model of the bowl-saver digital twin (src/functions.js): the angle and  *)
(* line-arc mathematics of MathUtils, the Cut record, the CutterAssembly   *)
(* pose operations and the Drawing cut history.                            *)
(*                                                                         *)
(* Numbers.  JavaScript numbers are doubles; the model is fixed-point:     *)
(* lengths are whole millimetres, angles are whole degrees.  Math.sqrt is  *)
(* the integer square root (floor) and Math.atan2 is read from a tangent   *)
(* table to the whole degree.  Sums, differences, products, comparisons    *)
(* and the remainder operator % are exact.  Values that the program halves *)
(* (diameters, the kerf, the workpiece height) are drawn even.             *)
(***************************************************************************)
EXTENDS Integers, Sequences, FiniteSets, TLC

(***************************************************************************)
(* Bounds of the model.                                                    *)
(***************************************************************************)
\* Longest cut history explored: addCurrentCut is offered only below it.
MaxCuts == 2

(***************************************************************************)
(* Program constants.                                                      *)
(***************************************************************************)
cutterKerf == 10
tailstockFixArcRadius == 175
tailstockFixArcLength == 115
cutterArcDegrees == 90
cutterArcInherentRotation == 90
initialCutterRadius == 120

(***************************************************************************)
(* Number primitives.                                                      *)
(***************************************************************************)
\* The JavaScript remainder a % n: truncated, the sign of the dividend.
JsRem(a, n) == IF a >= 0 THEN a % n ELSE -((-a) % n)

Abs(a) == IF a < 0 THEN -a ELSE a

RECURSIVE SqrtSearch(_, _, _)
SqrtSearch(n, lo, hi) ==
    IF lo = hi THEN lo
    ELSE LET mid == (lo + hi + 1) \div 2
         IN  IF mid * mid <= n THEN SqrtSearch(n, mid, hi)
                               ELSE SqrtSearch(n, lo, mid - 1)

\* Math.sqrt on a non-negative number, to the whole millimetre below.
Sqrt(n) == SqrtSearch(n, 0, n)

\* 1000 * tan(d degrees) for d = 1 .. 89.
TanTable ==
    << 17, 35, 52, 70, 87, 105, 123, 141, 158, 176, 194, 213, 231, 249, 268,
       287, 306, 325, 344, 364, 384, 404, 424, 445, 466, 488, 510, 532, 554,
       577, 601, 625, 649, 675, 700, 727, 754, 781, 810, 839, 869, 900, 933,
       966, 1000, 1036, 1072, 1111, 1150, 1192, 1235, 1280, 1327, 1376, 1428,
       1483, 1540, 1600, 1664, 1732, 1804, 1881, 1963, 2050, 2145, 2246, 2356,
       2475, 2605, 2747, 2904, 3078, 3271, 3487, 3732, 4011, 4331, 4705, 5145,
       5671, 6314, 7115, 8144, 9514, 11430, 14301, 19081, 28636, 57290 >>

\* atan(y / x) in degrees for x > 0 and y > 0: the whole degree below, kept
\* strictly inside the quadrant (1 .. 89), so that only a vector on an axis
\* has an angle that is a multiple of 90.
RECURSIVE AtanSearch(_, _, _, _)
AtanSearch(y, x, lo, hi) ==
    IF lo = hi THEN lo
    ELSE LET mid == (lo + hi + 1) \div 2
         IN  IF y * 1000 >= x * TanTable[mid] THEN AtanSearch(y, x, mid, hi)
                                              ELSE AtanSearch(y, x, lo, mid - 1)

AtanDeg(y, x) ==
    LET below == AtanSearch(y, x, 0, Len(TanTable))
    IN  IF below = 0 THEN 1 ELSE below

\* Math.atan2(y, x) * (180 / Math.PI): a value in (-180, 180].
Atan2Deg(y, x) ==
    CASE x > 0 /\ y = 0 -> 0
      [] x = 0 /\ y = 0 -> 0
      [] x = 0 /\ y > 0 -> 90
      [] x < 0 /\ y = 0 -> 180
      [] x = 0 /\ y < 0 -> -90
      [] x > 0 /\ y > 0 -> AtanDeg(y, x)
      [] x < 0 /\ y > 0 -> 180 - AtanDeg(y, -x)
      [] x < 0 /\ y < 0 -> AtanDeg(-y, -x) - 180
      [] x > 0 /\ y < 0 -> -AtanDeg(-y, x)

(***************************************************************************)
(* class Vector                                                            *)
(***************************************************************************)
Vector(x, y) == [x |-> x, y |-> y]

subtract(v, w) == Vector(v.x - w.x, v.y - w.y)

arg(v) == Atan2Deg(v.y, v.x)

(***************************************************************************)
(* class MathUtils                                                         *)
(***************************************************************************)
\* (length / radius) * (180 / Math.PI), with pi = 355/113, to the degree below.
angleFromArcLength(radius, length) == (length * 180 * 113) \div (radius * 355)

normalizeAngle(angle) == JsRem(angle + 360, 360)

\* The comparison with the end of the range left out.
isBetweenNormalized_openEnd(normalizedAngle, normalizedStart, normalizedEnd) ==
    IF normalizedStart <= normalizedEnd
    THEN normalizedAngle >= normalizedStart /\ normalizedAngle < normalizedEnd
    ELSE normalizedAngle >= normalizedStart \/ normalizedAngle < normalizedEnd

\* The comparison of isAngleBetween, on the three normalized angles.
isBetweenNormalized(normalizedAngle, normalizedStart, normalizedEnd) ==
    IF normalizedStart <= normalizedEnd
    THEN normalizedAngle >= normalizedStart /\ normalizedAngle <= normalizedEnd
    ELSE normalizedAngle >= normalizedStart \/ normalizedAngle <= normalizedEnd

isAngleBetween(angle, startAngle, endAngle) ==
    isBetweenNormalized(normalizeAngle(angle), normalizeAngle(startAngle),
                        normalizeAngle(endAngle))

isWithinArc(pt, arcCenter, arcStart, arcEnd) ==
    isAngleBetween(arg(subtract(pt, arcCenter)), arcStart, arcEnd)

\* getIntersectingArcs that tests the first candidate for both.
getIntersectingArcs_testsFirstTwice(p1, p2, arcCenter, arcStart, arcEnd) ==
    (IF isWithinArc(p1, arcCenter, arcStart, arcEnd) THEN <<p1>> ELSE <<>>)
    \o (IF isWithinArc(p1, arcCenter, arcStart, arcEnd) THEN <<p2>> ELSE <<>>)

getIntersectingArcs(p1, p2, arcCenter, arcStart, arcEnd) ==
    (IF isWithinArc(p1, arcCenter, arcStart, arcEnd) THEN <<p1>> ELSE <<>>)
    \o (IF isWithinArc(p2, arcCenter, arcStart, arcEnd) THEN <<p2>> ELSE <<>>)

\* The two candidates of the vertical solver, (x0, k + sqrtD) and (x0, k - sqrtD).
verticalCandidates(arcCenter, x0, sqrtD, arcStart, arcEnd) ==
    getIntersectingArcs(Vector(x0, arcCenter.y + sqrtD), Vector(x0, arcCenter.y - sqrtD),
                        arcCenter, arcStart, arcEnd)

intersectionLineArcVertical(arcCenter, r, arcStart, arcEnd, x0) ==
    LET h == arcCenter.x
        discriminant == r * r - (x0 - h) * (x0 - h)
    IN  IF discriminant < 0 THEN <<>>
        ELSE verticalCandidates(arcCenter, x0, Sqrt(discriminant), arcStart, arcEnd)

\* The two candidates of the horizontal solver, (h + sqrtT, y0) and (h - sqrtT, y0).
horizontalCandidates(arcCenter, y0, sqrtT, arcStart, arcEnd) ==
    getIntersectingArcs(Vector(arcCenter.x + sqrtT, y0), Vector(arcCenter.x - sqrtT, y0),
                        arcCenter, arcStart, arcEnd)

\* The fifth parameter, isHorizontal, is declared before y0 and never read.
intersectionLineArcHorizontal(arcCenter, r, arcStart, arcEnd, isHorizontal, y0) ==
    LET k == arcCenter.y
        term == r * r - (y0 - k) * (y0 - k)
    IN  IF term < 0 THEN <<>>
        ELSE horizontalCandidates(arcCenter, y0, Sqrt(term), arcStart, arcEnd)

\* The line y = m * x + c.  The quotients are taken to the whole millimetre
\* below.
intersectionLineArcAngle(arcCenter, r, arcStart, arcEnd, m, c) ==
    LET h == arcCenter.x
        k == arcCenter.y
        A == 1 + m * m
        B == -2 * h + 2 * m * (c - k)
        C == h * h + (c - k) * (c - k) - r * r
        discriminant == B * B - 4 * A * C
        sqrtDiscriminant == Sqrt(discriminant)
        x1 == (-B + sqrtDiscriminant) \div (2 * A)
        x2 == (-B - sqrtDiscriminant) \div (2 * A)
    IN  IF discriminant < 0 THEN <<>>
        ELSE getIntersectingArcs(Vector(x1, m * x1 + c), Vector(x2, m * x2 + c),
                                 arcCenter, arcStart, arcEnd)

tailstockFixArcDegrees == angleFromArcLength(tailstockFixArcRadius, tailstockFixArcLength)

DEFAULT_CUTTER_POSITION == Vector(150, 20)

(***************************************************************************)
(* class Cut                                                               *)
(***************************************************************************)
Cut(center, rotation, radius) ==
    [center |-> center, rotation |-> rotation, radius |-> radius, wasSaved |-> FALSE]

clone(cut) == Cut(cut.center, cut.rotation, cut.radius)

(***************************************************************************)
(* class Dimension: the visibility attribute and the (start, dir) pair of  *)
(* the last update.  A new Dimension carries no visibility attribute, so   *)
(* it is rendered; it has no transform yet.                                *)
(***************************************************************************)
Dimension == [visible |-> TRUE, start |-> Vector(0, 0), dir |-> Vector(0, 0)]

update(dim, start, dir) == [dim EXCEPT !.start = start, !.dir = dir]

setVisible(dim, isVisible) == [dim EXCEPT !.visible = isVisible]

(***************************************************************************)
(* class Workpiece                                                         *)
(***************************************************************************)
Workpiece(width, height) == [x |-> 0, width |-> width, height |-> height]

resize(wp, width, height) == [wp EXCEPT !.width = width, !.height = height]

(***************************************************************************)
(* class CutterAssembly.  The methods take and return the Drawing record   *)
(* d = [cuts, currentCut, cutterAssembly, workpiece]: the assembly holds a *)
(* reference to the drawing's live Cut and writes through it.              *)
(***************************************************************************)
CutterAssembly(cutterRadius) ==
    [center           |-> Vector(0, 0),
     rotationAngle    |-> 0,
     cutterRadius     |-> cutterRadius,
     workpieceDim     |-> Vector(0, 0),
     restDim          |-> Dimension,
     offCenterDim     |-> Dimension,
     distDim          |-> Dimension,
     entryPointDim    |-> Dimension,
     \* class "has-intersections" on the tailstock arc element
     hasIntersections |-> FALSE]

\* this.cutterArc = new Arc(.., cutterArcDegrees, 90)
cutterArc == [arcAngle |-> cutterArcDegrees, inherentRotation |-> cutterArcInherentRotation]

\* this.tailstockFixArc = new Arc(.., tailstockFixArcDegrees, -tailstockFixArcDegrees / 2)
tailstockFixArc ==
    [arcAngle |-> tailstockFixArcDegrees,
     inherentRotation |-> -(tailstockFixArcDegrees \div 2)]

setWorkpieceDim(d, dim) == [d EXCEPT !.cutterAssembly.workpieceDim = dim]

\* The tailstock arc's intersections with the centerline, for a pose.
tailstockIntersections(center, rotationAngle) ==
    LET startAngle == tailstockFixArc.inherentRotation + rotationAngle
        endAngle   == startAngle + tailstockFixArc.arcAngle
    IN  intersectionLineArcHorizontal(center, tailstockFixArcRadius,
                                      startAngle, endAngle, 0, 0)

checkTailstockArc(d) ==
    LET a == d.cutterAssembly
        intersections == tailstockIntersections(a.center, a.rotationAngle)
        hasIntersections == Len(intersections) > 0
    IN  [d EXCEPT !.cutterAssembly.hasIntersections = hasIntersections]

\* The kerf-offset cutter arc's intersections with the workpiece's far edge.
entryIntersections(center, rotationAngle, cutterRadius, workpieceDim) ==
    LET startAngle == cutterArc.inherentRotation + rotationAngle
        endAngle   == startAngle + cutterArc.arcAngle
    IN  intersectionLineArcVertical(center, cutterRadius + cutterKerf \div 2,
                                    startAngle, endAngle, workpieceDim.x)

\* The entry-point dimension that takes the first of several intersections.
entryPointDimFor_firstOfMany(a, intersections) ==
    LET intersectPoint == intersections[1]
        dy == a.workpieceDim.y \div 2 - intersectPoint.y
        showDim == /\ Len(intersections) >= 1
                   /\ dy > 0
                   /\ dy < a.workpieceDim.y \div 2
        dim == IF showDim THEN update(a.entryPointDim, intersectPoint, Vector(0, dy))
                          ELSE a.entryPointDim
    IN  setVisible(dim, showDim)

\* The entry-point dimension that is shown when found and never hidden again.
entryPointDimFor_neverHides(a, intersections) ==
    LET intersectPoint == intersections[1]
        dy == a.workpieceDim.y \div 2 - intersectPoint.y
        showDim == /\ Len(intersections) = 1
                   /\ dy > 0
                   /\ dy < a.workpieceDim.y \div 2
    IN  IF showDim
        THEN setVisible(update(a.entryPointDim, intersectPoint, Vector(0, dy)), TRUE)
        ELSE a.entryPointDim

\* The entry-point dimension of assembly a, given the solver's intersections.
entryPointDimFor(a, intersections) ==
    LET intersectPoint == intersections[1]
        dy == a.workpieceDim.y \div 2 - intersectPoint.y
        showDim == /\ Len(intersections) = 1
                   /\ dy > 0
                   /\ dy < a.workpieceDim.y \div 2
        dim == IF showDim THEN update(a.entryPointDim, intersectPoint, Vector(0, dy))
                          ELSE a.entryPointDim
    IN  setVisible(dim, showDim)

updateEntryPointDim(d) ==
    LET a == d.cutterAssembly
    IN  [d EXCEPT !.cutterAssembly.entryPointDim =
            entryPointDimFor(a, entryIntersections(a.center, a.rotationAngle,
                                                   a.cutterRadius, a.workpieceDim))]

setRadius(d, radius) ==
    [d EXCEPT !.cutterAssembly.cutterRadius = radius,
              !.currentCut.radius = radius]

\* moveTo that shows the rest and distance dimensions whenever the cutter's
\* leftmost edge is right of the workpiece's near edge.
moveTo_leftEdgeOnly(d, pos) ==
    LET a == d.cutterAssembly
        offCenter == IF pos.y < 0
                     THEN update(a.offCenterDim, Vector(pos.x, 0), Vector(0, pos.y))
                     ELSE update(a.offCenterDim, Vector(pos.x, pos.y), Vector(0, -pos.y))
        rest == update(a.restDim, Vector(0, pos.y),
                       Vector(pos.x - a.cutterRadius - cutterKerf \div 2, 0))
        dist == update(a.distDim, Vector(a.workpieceDim.x, pos.y),
                       Vector(pos.x - a.workpieceDim.x, 0))
        mostLeft == pos.x - a.cutterRadius
        dimVis == mostLeft > 0
        moved == [d EXCEPT !.cutterAssembly.center = pos,
                           !.currentCut.center = pos,
                           !.cutterAssembly.restDim = setVisible(rest, dimVis),
                           !.cutterAssembly.distDim = setVisible(dist, dimVis),
                           !.cutterAssembly.offCenterDim =
                               setVisible(offCenter, Abs(pos.y) > 1)]
    IN  updateEntryPointDim(checkTailstockArc(moved))

moveTo(d, pos) ==
    LET a == d.cutterAssembly
        offCenter == IF pos.y < 0
                     THEN update(a.offCenterDim, Vector(pos.x, 0), Vector(0, pos.y))
                     ELSE update(a.offCenterDim, Vector(pos.x, pos.y), Vector(0, -pos.y))
        rest == update(a.restDim, Vector(0, pos.y),
                       Vector(pos.x - a.cutterRadius - cutterKerf \div 2, 0))
        dist == update(a.distDim, Vector(a.workpieceDim.x, pos.y),
                       Vector(pos.x - a.workpieceDim.x, 0))
        mostLeft == pos.x - a.cutterRadius
        dimVis == mostLeft > 0 /\ mostLeft < a.workpieceDim.x
        moved == [d EXCEPT !.cutterAssembly.center = pos,
                           !.currentCut.center = pos,
                           !.cutterAssembly.restDim = setVisible(rest, dimVis),
                           !.cutterAssembly.distDim = setVisible(dist, dimVis),
                           !.cutterAssembly.offCenterDim =
                               setVisible(offCenter, Abs(pos.y) > 1)]
    IN  updateEntryPointDim(checkTailstockArc(moved))

\* rotate that stores the angle and leaves the tailstock arc unchecked.
rotate_withoutCheck(d, angle) ==
    [d EXCEPT !.cutterAssembly.rotationAngle = JsRem(angle, 360),
              !.currentCut.rotation = angle]

\* rotate that turns the assembly by angle from where it stands.
rotate_byAngle(d, angle) ==
    LET turned == [d EXCEPT !.cutterAssembly.rotationAngle =
                                JsRem(d.cutterAssembly.rotationAngle + angle, 360)]
        checked == checkTailstockArc(turned)
    IN  [checked EXCEPT !.currentCut.rotation = d.currentCut.rotation + angle]

rotate(d, angle) ==
    LET turned == [d EXCEPT !.cutterAssembly.rotationAngle = JsRem(angle, 360)]
        checked == checkTailstockArc(turned)
    IN  [checked EXCEPT !.currentCut.rotation = angle]

(***************************************************************************)
(* class Drawing                                                           *)
(***************************************************************************)
\* cutRef names, for each holder of a reference to the live Cut, the object it
\* refers to: "constructed" is the Cut the constructor makes, "snapshot" any
\* other Cut.  thrown tells whether the running call ended with a TypeError.
Drawing ==
    [cuts           |-> <<>>,
     currentCut     |-> Cut(Vector(0, 0), 0, 0),
     workpiece      |-> Workpiece(50, 50),
     cutterAssembly |-> CutterAssembly(initialCutterRadius),
     cutRef         |-> [drawing        |-> "constructed",
                         currentCutArc  |-> "constructed",
                         cutterAssembly |-> "constructed"],
     thrown         |-> FALSE]

\* The result of parseFloat on a form field: a number, or NaN.
Number(n) == [nan |-> FALSE, value |-> n]

NaN == [nan |-> TRUE, value |-> 0]

isNaN(v) == v.nan

\* arr.splice(index, 1): a negative index counts from the end, an index
\* beyond either end is clamped, and one element is removed if there is one
\* at the resulting position.
splice(arr, index) ==
    LET len == Len(arr)
        start == IF index < 0
                 THEN (IF len + index < 0 THEN 0 ELSE len + index)
                 ELSE (IF index > len THEN len ELSE index)
    IN  IF start >= len THEN arr
        ELSE [j \in 1..(len - 1) |-> IF j <= start THEN arr[j] ELSE arr[j + 1]]

\* updateShapes that validates the diameter field only.
updateShapes_checksDiameterOnly(d, form) ==
    LET workpieceDiameter == form.diameter
        workpieceHeight   == form.height
        cutterDiameter    == form.cutter
        invalid(v) == isNaN(v) \/ v.value <= 0
    IN  IF invalid(workpieceDiameter)
        THEN d
        ELSE LET resized == [d EXCEPT !.workpiece =
                                 resize(d.workpiece, workpieceHeight.value,
                                        workpieceDiameter.value)]
                 dimmed  == setWorkpieceDim(resized, Vector(workpieceHeight.value,
                                                            workpieceDiameter.value))
                 moved   == moveTo(setRadius(dimmed, cutterDiameter.value \div 2),
                                   DEFAULT_CUTTER_POSITION)
             IN  [moved EXCEPT !.currentCut.radius = cutterDiameter.value \div 2,
                               !.currentCut.center = DEFAULT_CUTTER_POSITION,
                               !.currentCut.rotation = 0]

updateShapes(d, form) ==
    LET workpieceDiameter == form.diameter
        workpieceHeight   == form.height
        cutterDiameter    == form.cutter
        invalid(v) == isNaN(v) \/ v.value <= 0
    IN  IF invalid(workpieceDiameter) \/ invalid(workpieceHeight) \/ invalid(cutterDiameter)
        THEN d
        ELSE LET resized == [d EXCEPT !.workpiece =
                                 resize(d.workpiece, workpieceHeight.value,
                                        workpieceDiameter.value)]
                 dimmed  == setWorkpieceDim(resized, Vector(workpieceHeight.value,
                                                            workpieceDiameter.value))
                 moved   == moveTo(setRadius(dimmed, cutterDiameter.value \div 2),
                                   DEFAULT_CUTTER_POSITION)
             IN  [moved EXCEPT !.currentCut.radius = cutterDiameter.value \div 2,
                               !.currentCut.center = DEFAULT_CUTTER_POSITION,
                               !.currentCut.rotation = 0]

\* addCurrentCut that leaves the live Cut's wasSaved mark as it is.
addCurrentCut_keepsMark(d) ==
    [d EXCEPT !.cuts = Append(d.cuts, clone(d.currentCut))]

addCurrentCut(d) ==
    [d EXCEPT !.cuts = Append(d.cuts, clone(d.currentCut)),
              !.currentCut.wasSaved = FALSE]

\* selectCut that removes the last snapshot instead of the chosen one.
selectCut_removesLast(d, index) ==
    LET cut == d.cuts[index + 1]
        removed == SubSeq(d.cuts, 1, Len(d.cuts) - 1)
        kept == IF d.currentCut.wasSaved
                THEN Append(removed, clone(d.currentCut))
                ELSE removed
        applied == [d EXCEPT !.cuts = kept,
                             !.currentCut.center = cut.center,
                             !.currentCut.radius = cut.radius,
                             !.currentCut.rotation = cut.rotation,
                             !.currentCut.wasSaved = TRUE]
    IN  setRadius(rotate(moveTo(applied, cut.center), cut.rotation), cut.radius)

\* selectCut that saves the live Cut again only after overwriting it.
selectCut_savesAfterOverwrite(d, index) ==
    LET cut == d.cuts[index + 1]
        removed == splice(d.cuts, index)
        kept == IF d.currentCut.wasSaved
                THEN Append(removed, clone(cut))
                ELSE removed
        applied == [d EXCEPT !.cuts = kept,
                             !.currentCut.center = cut.center,
                             !.currentCut.radius = cut.radius,
                             !.currentCut.rotation = cut.rotation,
                             !.currentCut.wasSaved = TRUE]
    IN  setRadius(rotate(moveTo(applied, cut.center), cut.rotation), cut.radius)

\* selectCut that never saves the live Cut again.
selectCut_dropsMarkedCut(d, index) ==
    LET cut == d.cuts[index + 1]
        kept == splice(d.cuts, index)
        applied == [d EXCEPT !.cuts = kept,
                             !.currentCut.center = cut.center,
                             !.currentCut.radius = cut.radius,
                             !.currentCut.rotation = cut.rotation,
                             !.currentCut.wasSaved = TRUE]
    IN  IF index \in 0..(Len(d.cuts) - 1)
        THEN setRadius(rotate(moveTo(applied, cut.center), cut.rotation), cut.radius)
        ELSE [d EXCEPT !.cuts = kept, !.thrown = TRUE]

\* selectCut that installs the chosen snapshot as the Drawing's live Cut
\* (this.currentCut = cut) instead of copying its fields.
selectCut_installsSnapshot(d, index) ==
    LET cut == d.cuts[index + 1]
        removed == splice(d.cuts, index)
        kept == IF d.currentCut.wasSaved
                THEN Append(removed, clone(d.currentCut))
                ELSE removed
        applied == [d EXCEPT !.cuts = kept,
                             !.currentCut = [cut EXCEPT !.wasSaved = TRUE],
                             !.cutRef.drawing = "snapshot"]
    IN  IF index \in 0..(Len(d.cuts) - 1)
        THEN setRadius(rotate(moveTo(applied, cut.center), cut.rotation), cut.radius)
        ELSE [d EXCEPT !.cuts = kept, !.thrown = TRUE]

\* index is counted from 0.  Where it is no position of d.cuts, cut is
\* undefined and reading cut.center throws, after the splice and the push.
selectCut(d, index) ==
    LET cut == d.cuts[index + 1]
        removed == splice(d.cuts, index)
        kept == IF d.currentCut.wasSaved
                THEN Append(removed, clone(d.currentCut))
                ELSE removed
        applied == [d EXCEPT !.cuts = kept,
                             !.currentCut.center = cut.center,
                             !.currentCut.radius = cut.radius,
                             !.currentCut.rotation = cut.rotation,
                             !.currentCut.wasSaved = TRUE]
    IN  IF index \in 0..(Len(d.cuts) - 1)
        THEN setRadius(rotate(moveTo(applied, cut.center), cut.rotation), cut.radius)
        ELSE [d EXCEPT !.cuts = kept, !.thrown = TRUE]

(***************************************************************************)
(* The state machine: one Drawing, driven by its operations.               *)
(***************************************************************************)
VARIABLES
    cuts,            \* Drawing.cuts: the committed Cut snapshots, in order
    currentCut,      \* Drawing.currentCut: the live Cut
    workpiece,       \* Drawing.workpiece
    cutterAssembly,  \* Drawing.cutterAssembly
    cutRef,          \* the Cut object each holder of the live Cut refers to
    thrown,          \* whether the last call ended with a TypeError
    call,            \* the last call of a MathUtils function: name and arguments
    result           \* what that call returned

vars == <<cuts, currentCut, workpiece, cutterAssembly, cutRef, thrown, call, result>>

\* The Drawing as a call finds it: no exception is pending.
drawing ==
    [cuts |-> cuts, currentCut |-> currentCut,
     workpiece |-> workpiece, cutterAssembly |-> cutterAssembly,
     cutRef |-> cutRef, thrown |-> FALSE]

\* No MathUtils function has been called on its own.
NoCall == [fn |-> "none", args |-> <<>>]

\* A call that has not returned, and one that returned value.
Pending == [done |-> FALSE]

Returned(value) == [done |-> TRUE, value |-> value]

Becomes(d) ==
    /\ cuts' = d.cuts
    /\ currentCut' = d.currentCut
    /\ workpiece' = d.workpiece
    /\ cutterAssembly' = d.cutterAssembly
    /\ cutRef' = d.cutRef
    /\ thrown' = d.thrown
    /\ UNCHANGED <<call, result>>

\* Inputs of the whole program's state machine.
OtherPosition == Vector(200, 170)

PosSet == {DEFAULT_CUTTER_POSITION, OtherPosition}

AngleSet == {-675}

RadiusSet == {127}

\* The form as the page is served: diameter 300, height 80, cutter "Small".
FormDefaults == [diameter |-> Number(300), height |-> Number(80), cutter |-> Number(180)]

FormSet ==
    {FormDefaults,
     [diameter |-> Number(300), height |-> Number(80), cutter |-> Number(254)],
     [diameter |-> NaN, height |-> Number(80), cutter |-> Number(180)]}

\* The page constructs the Drawing and its load handler calls updateShapes().
Loaded ==
    /\ cuts = updateShapes(Drawing, FormDefaults).cuts
    /\ currentCut = updateShapes(Drawing, FormDefaults).currentCut
    /\ workpiece = updateShapes(Drawing, FormDefaults).workpiece
    /\ cutterAssembly = updateShapes(Drawing, FormDefaults).cutterAssembly
    /\ cutRef = updateShapes(Drawing, FormDefaults).cutRef
    /\ thrown = updateShapes(Drawing, FormDefaults).thrown

Init ==
    /\ Loaded
    /\ call = NoCall
    /\ result = Pending

MoveTo(pos) ==
    /\ Becomes(moveTo(drawing, pos))

Rotate(angle) ==
    /\ Becomes(rotate(drawing, angle))

SetRadius(radius) ==
    /\ Becomes(setRadius(drawing, radius))

UpdateShapes(form) ==
    /\ Becomes(updateShapes(drawing, form))

AddCurrentCut ==
    /\ Len(cuts) < MaxCuts
    /\ Becomes(addCurrentCut(drawing))

SelectCut(index) ==
    /\ index \in 0..(Len(cuts) - 1)
    /\ Becomes(selectCut(drawing, index))

Next ==
    \/ \E pos \in PosSet : MoveTo(pos)
    \/ \E angle \in AngleSet : Rotate(angle)
    \/ \E radius \in RadiusSet : SetRadius(radius)
    \/ \E form \in FormSet : UpdateShapes(form)
    \/ AddCurrentCut
    \/ \E index \in 0..(MaxCuts - 1) : SelectCut(index)

Spec == Init /\ [][Next]_vars

(***************************************************************************)
(* The assembly on its own: the cutter is dragged, turned and resized and  *)
(* the form is applied, and nothing is committed or selected.  The history *)
(* stays empty, which leaves room for more poses.                          *)
(***************************************************************************)
CenterlinePosition == Vector(150, 0)

\* A position that puts the edge of a cutter of radius 90 less than half a
\* kerf right of the workpiece's near edge.
NearEdgePosition == Vector(93, 40)

AssemblyPosSet ==
    {DEFAULT_CUTTER_POSITION, OtherPosition, CenterlinePosition, NearEdgePosition}

AssemblyAngleSet == {-675, 450}

AssemblyRadiusSet == {90, 127}

AssemblyNext ==
    \/ \E pos \in AssemblyPosSet : MoveTo(pos)
    \/ \E angle \in AssemblyAngleSet : Rotate(angle)
    \/ \E radius \in AssemblyRadiusSet : SetRadius(radius)
    \/ \E form \in FormSet : UpdateShapes(form)

AssemblySpec == Init /\ [][AssemblyNext]_vars

(***************************************************************************)
(* The session from the construction of the Drawing: the script builds it  *)
(* while the page is read and the load handler runs later, so the Add Cut  *)
(* button can be pressed before updateShapes() has run.  selectCut() is    *)
(* called here with any index, as a caller of the method may.              *)
(***************************************************************************)
SessionInit ==
    /\ cuts = Drawing.cuts
    /\ currentCut = Drawing.currentCut
    /\ workpiece = Drawing.workpiece
    /\ cutterAssembly = Drawing.cutterAssembly
    /\ cutRef = Drawing.cutRef
    /\ thrown = Drawing.thrown
    /\ call = NoCall
    /\ result = Pending

\* Indices selectCut is called with: before the history, in it, beyond it.
SelectIndices == -1..MaxCuts

\* selectCut(index) for any index; the history stays within MaxCuts.
SelectCutAt(index) ==
    /\ Len(selectCut(drawing, index).cuts) <= MaxCuts
    /\ Becomes(selectCut(drawing, index))

\* The form as served, and the form with its diameter field emptied.
SessionFormSet ==
    {FormDefaults,
     [diameter |-> NaN, height |-> Number(80), cutter |-> Number(180)]}

SessionNext ==
    \/ MoveTo(OtherPosition)
    \/ \E angle \in AngleSet : Rotate(angle)
    \/ \E radius \in RadiusSet : SetRadius(radius)
    \/ \E form \in SessionFormSet : UpdateShapes(form)
    \/ AddCurrentCut
    \/ \E index \in SelectIndices : SelectCutAt(index)

SessionSpec == SessionInit /\ [][SessionNext]_vars

(***************************************************************************)
(* MathUtils on its own: one call of one function, its arguments drawn     *)
(* from the sets below.                                                    *)
(***************************************************************************)
\* Angles for normalizeAngle: more than two turns either way.
NormalizeAngles == -800..800

\* Angles for isAngleBetween: the seam, the quadrant borders, values inside
\* a turn and values that have accumulated beyond one turn either way.
BetweenAngles == {-400, -370, -360, -30, 0, 10, 90, 180, 330, 350, 359, 360, 370, 730}

SolverCenters == {Vector(0, 0), Vector(3, 4)}

SolverRadii == {5, 10}

\* Arcs [arcStart, arcEnd]: the full circle, a quadrant, the left half, the
\* right half across the seam, and a quadrant given a turn further.
SolverArcs == {<<0, 360>>, <<0, 90>>, <<90, 270>>, <<-90, 90>>, <<360, 450>>}

\* Positions x0 or y0 of the line: through, tangent to and beside the circle.
SolverOffsets == {-10, 0, 4, 6, 10, 13, 20}

\* Lines y = m * x + c.
SolverLines == {<<0, 3>>, <<0, 5>>, <<1, 1>>, <<0, 7>>}

MathCalls ==
    {[fn |-> "normalizeAngle", args |-> <<a>>] : a \in NormalizeAngles}
    \cup {[fn |-> "isAngleBetween", args |-> <<a, b, c>>] :
              a \in BetweenAngles, b \in BetweenAngles, c \in BetweenAngles}
    \cup {[fn |-> "intersectionLineArcVertical", args |-> <<o, r, arc[1], arc[2], x0>>] :
              o \in SolverCenters, r \in SolverRadii, arc \in SolverArcs,
              x0 \in SolverOffsets}
    \cup {[fn |-> "intersectionLineArcHorizontal",
           args |-> <<o, r, arc[1], arc[2], TRUE, y0>>] :
              o \in SolverCenters, r \in SolverRadii, arc \in SolverArcs,
              y0 \in SolverOffsets}
    \cup {[fn |-> "intersectionLineArcHorizontal", args |-> <<o, r, arc[1], arc[2], y0>>] :
              o \in SolverCenters, r \in SolverRadii, arc \in SolverArcs,
              y0 \in SolverOffsets}
    \cup {[fn |-> "intersectionLineArcAngle", args |-> <<o, r, arc[1], arc[2], l[1], l[2]>>] :
              o \in {Vector(0, 0)}, r \in {5}, arc \in SolverArcs, l \in SolverLines}

MathInit ==
    /\ Loaded
    /\ call \in MathCalls
    /\ result = Pending

Returns(value) ==
    /\ result = Pending
    /\ result' = Returned(value)
    /\ UNCHANGED <<cuts, currentCut, workpiece, cutterAssembly, cutRef, thrown, call>>

NormalizeAngle ==
    /\ call.fn = "normalizeAngle"
    /\ Returns(normalizeAngle(call.args[1]))

IsAngleBetween ==
    /\ call.fn = "isAngleBetween"
    /\ Returns(isAngleBetween(call.args[1], call.args[2], call.args[3]))

IntersectionLineArcVertical ==
    /\ call.fn = "intersectionLineArcVertical"
    /\ Returns(intersectionLineArcVertical(call.args[1], call.args[2], call.args[3],
                                           call.args[4], call.args[5]))

\* The arguments are bound in order to (arcCenter, r, arcStart, arcEnd,
\* isHorizontal = false, y0 = 0): a call with five arguments binds its fifth
\* to isHorizontal and leaves y0 at its default.
IntersectionLineArcHorizontal ==
    /\ call.fn = "intersectionLineArcHorizontal"
    /\ Returns(intersectionLineArcHorizontal(
                   call.args[1], call.args[2], call.args[3], call.args[4],
                   call.args[5],
                   IF Len(call.args) >= 6 THEN call.args[6] ELSE 0))

IntersectionLineArcAngle ==
    /\ call.fn = "intersectionLineArcAngle"
    /\ Returns(intersectionLineArcAngle(call.args[1], call.args[2], call.args[3],
                                        call.args[4], call.args[5], call.args[6]))

MathNext ==
    \/ NormalizeAngle
    \/ IsAngleBetween
    \/ IntersectionLineArcVertical
    \/ IntersectionLineArcHorizontal
    \/ IntersectionLineArcAngle

MathSpec == MathInit /\ [][MathNext]_vars

(***************************************************************************)
(* Claims.                                                                 *)
(***************************************************************************)
\* The (center, rotation, radius) of a Cut.
Pose(cut) == <<cut.center, cut.rotation, cut.radius>>

\* C1: selectCut(i) with a valid index, called while the live Cut is not
\* marked wasSaved, removes exactly the i-th entry of the history (one entry
\* fewer, the others in their order) and leaves the live Cut's center,
\* rotation and radius equal to that entry's.
C1_SelectRemovesAndLoads ==
    \A i \in 0..(Len(cuts) - 1) :
        ~currentCut.wasSaved =>
            LET after == selectCut(drawing, i)
            IN  /\ Len(after.cuts) = Len(cuts) - 1
                /\ \A j \in 1..Len(after.cuts) :
                      after.cuts[j] = IF j <= i THEN cuts[j] ELSE cuts[j + 1]
                /\ Pose(after.currentCut) = Pose(cuts[i + 1])

\* Two cuts were committed, the first at the default position and the second
\* at the other one, and the first was selected: the history holds only the
\* second and the live Cut carries the first's values.
C1_Witness ==
    /\ Len(cuts) = 1
    /\ Pose(cuts[1]) = <<OtherPosition, 0, 90>>
    /\ currentCut.wasSaved
    /\ Pose(currentCut) = <<DEFAULT_CUTTER_POSITION, 0, 90>>

\* C2: selectCut(i) called while the live Cut is marked wasSaved appends a
\* copy of the live Cut's current center, rotation and radius to the end of
\* the history before the live Cut is overwritten, so the history keeps its
\* length; when the live Cut is not marked, nothing is pushed.
C2_SelectSavesMarkedCut ==
    \A i \in 0..(Len(cuts) - 1) :
        LET after == selectCut(drawing, i)
        IN  IF currentCut.wasSaved
            THEN /\ Len(after.cuts) = Len(cuts)
                 /\ Pose(after.cuts[Len(after.cuts)]) = Pose(currentCut)
            ELSE /\ Len(after.cuts) = Len(cuts) - 1
                 /\ \A j \in 1..Len(after.cuts) :
                       \E k \in 1..Len(cuts) : after.cuts[j] = cuts[k]

\* A selected cut was turned and then another cut was selected: the turned
\* pose is back in the history and the live Cut carries the other cut.
C2_Witness ==
    /\ Len(cuts) = 1
    /\ Pose(cuts[1]) = <<DEFAULT_CUTTER_POSITION, -675, 90>>
    /\ currentCut.wasSaved
    /\ Pose(currentCut) = <<OtherPosition, 0, 90>>

\* C3: addCurrentCut appends a copy of the live Cut's (center, rotation,
\* radius) to the end of the history and leaves the live Cut's fields as they
\* were and unmarked; moveTo, rotate and setRadius leave the history as it is.
C3_CommitCopiesAndEditsKeepHistory ==
    /\ LET after == addCurrentCut(drawing)
       IN  /\ after.cuts = Append(cuts, Cut(currentCut.center, currentCut.rotation,
                                            currentCut.radius))
           /\ Pose(after.currentCut) = Pose(currentCut)
           /\ ~after.currentCut.wasSaved
    /\ \A pos \in PosSet : moveTo(drawing, pos).cuts = cuts
    /\ \A angle \in AngleSet : rotate(drawing, angle).cuts = cuts
    /\ \A radius \in RadiusSet : setRadius(drawing, radius).cuts = cuts

\* A cut was committed at the default pose and the live Cut was then moved,
\* turned and resized: the snapshot still holds the committed values.
C3_Witness ==
    /\ Len(cuts) = 1
    /\ Pose(cuts[1]) = <<DEFAULT_CUTTER_POSITION, 0, 90>>
    /\ ~currentCut.wasSaved
    /\ Pose(currentCut) = <<OtherPosition, -675, 127>>

\* The entry-point measurement an assembly shows: nothing, or the point and
\* its distance.
EntryPoint(a) ==
    IF a.entryPointDim.visible
    THEN <<a.entryPointDim.start, a.entryPointDim.dir>>
    ELSE <<>>

\* The derived state of an assembly.
Derived(a) ==
    [rest      |-> a.restDim.visible,
     dist      |-> a.distDim.visible,
     reachable |-> a.hasIntersections,
     entry     |-> EntryPoint(a)]

\* Steps 1-4 run on a pose: the radius and the rotation are stored first and
\* the move comes last, so every derived value is computed from the pose.
Recomputed(d, center, rotation, radius) ==
    moveTo(rotate(setRadius(d, radius), rotation), center)

\* C4: after selectCut(i) the derived state (rest and distance dimension
\* visibility, tailstock reachable flag, entry-point visibility and point)
\* is the one steps 1-4 give for the selected snapshot's center, rotation and
\* radius.
C4_SelectRecomputesFromSnapshot ==
    [][\A i \in 0..(Len(cuts) - 1) :
          SelectCut(i) =>
              Derived(cutterAssembly') =
                  Derived(Recomputed(drawing, cuts[i + 1].center, cuts[i + 1].rotation,
                                     cuts[i + 1].radius).cutterAssembly)]_vars

\* C5: after rotate(a) the tailstock reachable flag and the entry-point
\* visibility and point are the ones computed from the new rotation.
C5_RotateRecomputesEntryPoint ==
    [][\A angle \in AssemblyAngleSet :
          Rotate(angle) =>
              /\ cutterAssembly'.hasIntersections =
                     (Len(tailstockIntersections(cutterAssembly'.center,
                                                 cutterAssembly'.rotationAngle)) > 0)
              /\ EntryPoint(cutterAssembly') =
                     EntryPoint([cutterAssembly' EXCEPT !.entryPointDim =
                         entryPointDimFor(cutterAssembly',
                             entryIntersections(cutterAssembly'.center,
                                                cutterAssembly'.rotationAngle,
                                                cutterAssembly'.cutterRadius,
                                                cutterAssembly'.workpieceDim))])]_vars

\* C6: after rotate(a) the assembly's rotation angle and the live Cut's
\* rotation both equal a reduced modulo 360 with the sign of a, whatever
\* rotate and moveTo calls came before.
C6_RotateStoresReducedAngle ==
    [][\A angle \in AssemblyAngleSet :
          Rotate(angle) =>
              /\ cutterAssembly'.rotationAngle = JsRem(angle, 360)
              /\ currentCut'.rotation = JsRem(angle, 360)]_vars

\* C7: the tailstock reachable flag is true iff the horizontal solver against
\* the centerline y = 0, for the circle at the current center with the fixed
\* tailstock radius and the arc [inherentRotation + rotation,
\* inherentRotation + rotation + arcAngle], returns at least one point; it is
\* a function of the current center and rotation alone.
C7_ReachableFlagIsDerived ==
    cutterAssembly.hasIntersections =
        (Len(intersectionLineArcHorizontal(
                 cutterAssembly.center, tailstockFixArcRadius,
                 tailstockFixArc.inherentRotation + cutterAssembly.rotationAngle,
                 tailstockFixArc.inherentRotation + cutterAssembly.rotationAngle
                     + tailstockFixArc.arcAngle,
                 0, 0)) > 0)

\* A cut turned at the default position was committed, the form applied and
\* the cut selected again: the flag, true when the page loaded and after the
\* form was applied, is false for the selected pose.
C7_Witness ==
    /\ cuts = <<>>
    /\ currentCut.wasSaved
    /\ Pose(currentCut) = <<DEFAULT_CUTTER_POSITION, -675, 90>>
    /\ cutterAssembly.center = DEFAULT_CUTTER_POSITION
    /\ cutterAssembly.rotationAngle = -315
    /\ ~cutterAssembly.hasIntersections

\* The vertical solver's points for an assembly: the line at the workpiece's
\* far edge against the kerf-offset cutter arc turned by the rotation.
EntryCandidates(a) ==
    intersectionLineArcVertical(
        a.center, a.cutterRadius + cutterKerf \div 2,
        cutterArc.inherentRotation + a.rotationAngle,
        cutterArc.inherentRotation + a.rotationAngle + cutterArc.arcAngle,
        a.workpieceDim.x)

\* Workpiece (width 80, height 300), cutter radius 90, rotation 0.
Scenario(a) ==
    /\ a.workpieceDim = Vector(80, 300)
    /\ a.cutterRadius = 90
    /\ a.rotationAngle = 0

\* C8: the entry-point computation of moveTo marks the measurement visible
\* iff the vertical solver returns exactly one point and halfHeight - point.y
\* lies strictly between 0 and halfHeight; for workpiece (80, 300), radius 90,
\* center (150, 20), rotation 0 it is visible with exactly one point.
C8_EntryPointVisibleIffOnePointInRange ==
    [][(\E pos \in AssemblyPosSet : MoveTo(pos)) =>
          LET a == cutterAssembly'
              points == EntryCandidates(a)
              halfHeight == a.workpieceDim.y \div 2
          IN  /\ a.entryPointDim.visible <=>
                     /\ Len(points) = 1
                     /\ halfHeight - points[1].y > 0
                     /\ halfHeight - points[1].y < halfHeight
              /\ (Scenario(a) /\ a.center = Vector(150, 20)) =>
                     /\ Len(points) = 1
                     /\ a.entryPointDim.visible]_vars

\* The cutter was turned at the default position and moved there again: the
\* solver returns two points on the arc and the measurement is hidden.
C8_Witness ==
    /\ cutterAssembly.center = DEFAULT_CUTTER_POSITION
    /\ cutterAssembly.rotationAngle = -315
    /\ cutterAssembly.cutterRadius = 90
    /\ Len(EntryCandidates(cutterAssembly)) = 2
    /\ ~cutterAssembly.entryPointDim.visible

\* C9 as stated: with workpiece (80, 300), radius 90 and rotation 0, moveTo
\* to any center whose x is beyond the workpiece width (x > 80) leaves the
\* entry-point dimension hidden.
C9_HiddenBeyondWidth ==
    [][\A pos \in AssemblyPosSet :
          (MoveTo(pos) /\ Scenario(cutterAssembly') /\ pos.x > 80) =>
              ~cutterAssembly'.entryPointDim.visible]_vars

\* C9, amended: moveTo to a center whose x is beyond the workpiece width by
\* more than the cutter radius plus half the kerf (x > 80 + 90 + 5 for the
\* scenario's workpiece and radius) leaves the entry-point dimension hidden.
C9_HiddenBeyondReach ==
    [][\A pos \in AssemblyPosSet :
          (/\ MoveTo(pos)
           /\ pos.x > cutterAssembly'.workpieceDim.x
                          + cutterAssembly'.cutterRadius + cutterKerf \div 2) =>
              ~cutterAssembly'.entryPointDim.visible]_vars

\* The cutter of radius 90 was moved to x = 200, out of reach of the far
\* edge at x = 80: the measurement shown at the default position is hidden.
C9_Witness ==
    /\ Scenario(cutterAssembly)
    /\ cutterAssembly.center = OtherPosition
    /\ currentCut.center = OtherPosition
    /\ Len(EntryCandidates(cutterAssembly)) = 0
    /\ ~cutterAssembly.entryPointDim.visible

\* The cutter's leftmost edge lies strictly inside the workpiece span.
InsideSpan(a, pos) ==
    /\ 0 < pos.x - a.cutterRadius
    /\ pos.x - a.cutterRadius < a.workpieceDim.x

\* C10 as stated: after moveTo(p) the distance from the cutter edge to the
\* workpiece's near edge and the vertical offset from the centerline are each
\* visible only while 0 < p.x - cutterRadius < workpiece width.
C10_DimensionsVisibleOnlyInsideSpan ==
    [][\A pos \in AssemblyPosSet :
          MoveTo(pos) =>
              /\ cutterAssembly'.restDim.visible => InsideSpan(cutterAssembly', pos)
              /\ cutterAssembly'.offCenterDim.visible => InsideSpan(cutterAssembly', pos)]_vars

\* C10, amended: after moveTo(p) the two horizontal distances (cutter edge to
\* near edge, far edge to cutter center) are visible iff
\* 0 < p.x - cutterRadius < workpiece width, and the vertical offset from the
\* centerline is visible iff |p.y| > 1, wherever the leftmost edge lies.
C10_SpanForDistancesOffsetOffCenterline ==
    [][\A pos \in AssemblyPosSet :
          MoveTo(pos) =>
              /\ cutterAssembly'.restDim.visible <=> InsideSpan(cutterAssembly', pos)
              /\ cutterAssembly'.distDim.visible <=> InsideSpan(cutterAssembly', pos)
              /\ cutterAssembly'.offCenterDim.visible <=> Abs(pos.y) > 1]_vars

\* The cutter of radius 90 was moved to (200, 170): its leftmost edge, at
\* x = 110, is outside the span, the distances are hidden and the vertical
\* offset is shown.
C10_Witness ==
    /\ cutterAssembly.center = OtherPosition
    /\ cutterAssembly.cutterRadius = 90
    /\ ~cutterAssembly.restDim.visible
    /\ ~cutterAssembly.distDim.visible
    /\ cutterAssembly.offCenterDim.visible
    /\ cutterAssembly.offCenterDim.dir = Vector(0, -170)

\* A call of fn has returned.
Called(fn) == call.fn = fn /\ result.done

\* C11: normalizeAngle(a) returns a value in [0, 360) for every angle a,
\* negative angles below -360 and angles of 360 or more included.
C11_NormalizeAngleInRange ==
    Called("normalizeAngle") => (0 <= result.value /\ result.value < 360)

\* C12: normalizeAngle is idempotent: normalizeAngle(normalizeAngle(a)) =
\* normalizeAngle(a) for every angle a.
C12_NormalizeAngleIdempotent ==
    Called("normalizeAngle") => normalizeAngle(result.value) = result.value

\* Membership of x in the range from lo to hi, all three in [0, 360): the
\* closed interval, or across the seam when lo > hi.
InRange(x, lo, hi) ==
    IF lo <= hi THEN lo <= x /\ x <= hi
                ELSE x >= lo \/ x <= hi

\* C13: isAngleBetween(angle, start, end), on the three inputs normalized to
\* [0, 360), is true iff start <= angle <= end when start <= end, and iff
\* angle >= start or angle <= end when start > end; both boundaries are
\* inclusive; isAngleBetween(0, 350, 10) is true and isAngleBetween(180, 350,
\* 10) is false.  Inputs from -360 upwards are normalized by the remainder
\* of the division by 360.
C13_BetweenIsClosedRange ==
    Called("isAngleBetween") =>
        LET angle == call.args[1]
            start == call.args[2]
            end   == call.args[3]
        IN  /\ (angle >= -360 /\ start >= -360 /\ end >= -360) =>
                   (result.value <=> InRange(angle % 360, start % 360, end % 360))
            /\ (angle = start \/ angle = end) => result.value
            /\ (angle = 0 /\ start = 350 /\ end = 10) => result.value
            /\ (angle = 180 /\ start = 350 /\ end = 10) => ~result.value

\* isAngleBetween(10, 350, 10) returned true: the range crosses the seam and
\* the angle is its end.
C13_Witness ==
    /\ call = [fn |-> "isAngleBetween", args |-> <<10, 350, 10>>]
    /\ result = Returned(TRUE)

\* Whole turns added to an angle.
Turns == {-2, -1, 0, 1, 2}

\* C14: isAngleBetween treats angles that differ by a multiple of 360 as
\* equal: isAngleBetween(angle + 360i, start + 360j, end + 360k) =
\* isAngleBetween(angle, start, end) for all integers i, j, k.
C14_BetweenIgnoresWholeTurns ==
    Called("isAngleBetween") =>
        \A i \in Turns, j \in Turns, k \in Turns :
            isAngleBetween(call.args[1] + 360 * i, call.args[2] + 360 * j,
                           call.args[3] + 360 * k) = result.value

\* A call of one of the three line-arc solvers has returned.
SolverCalled ==
    /\ call.fn \in {"intersectionLineArcVertical", "intersectionLineArcHorizontal",
                     "intersectionLineArcAngle"}
    /\ result.done

\* The value the returned horizontal solver call has for its parameter y0.
BoundY0 == IF Len(call.args) >= 6 THEN call.args[6] ELSE 0

\* The discriminant of the returned solver call: the radicand of its root.
Discriminant ==
    LET h == call.args[1].x
        k == call.args[1].y
        r == call.args[2]
    IN  CASE call.fn = "intersectionLineArcVertical" ->
                 r * r - (call.args[5] - h) * (call.args[5] - h)
          [] call.fn = "intersectionLineArcHorizontal" ->
                 r * r - (BoundY0 - k) * (BoundY0 - k)
          [] call.fn = "intersectionLineArcAngle" ->
                 LET m == call.args[5]
                     c == call.args[6]
                     B == -2 * h + 2 * m * (c - k)
                 IN  B * B - 4 * (1 + m * m) * (h * h + (c - k) * (c - k) - r * r)

\* The circle-line candidates of the returned solver call, the branch with
\* the added root first: none when the discriminant is negative, else two.
Candidates ==
    LET h == call.args[1].x
        k == call.args[1].y
        root == Sqrt(Discriminant)
    IN  IF Discriminant < 0 THEN <<>>
        ELSE CASE call.fn = "intersectionLineArcVertical" ->
                      <<Vector(call.args[5], k + root), Vector(call.args[5], k - root)>>
               [] call.fn = "intersectionLineArcHorizontal" ->
                      <<Vector(h + root, BoundY0), Vector(h - root, BoundY0)>>
               [] call.fn = "intersectionLineArcAngle" ->
                      LET m == call.args[5]
                          c == call.args[6]
                          B == -2 * h + 2 * m * (c - k)
                          x1 == (-B + root) \div (2 * (1 + m * m))
                          x2 == (-B - root) \div (2 * (1 + m * m))
                      IN  <<Vector(x1, m * x1 + c), Vector(x2, m * x2 + c)>>

\* The angle of point about the call's arc center passes isAngleBetween
\* against the call's [arcStart, arcEnd].
OnArc(point) ==
    isAngleBetween(Atan2Deg(point.y - call.args[1].y, point.x - call.args[1].x),
                   call.args[3], call.args[4])

\* C15: for the full circle (arcStart = 0, arcEnd = 360) the vertical solver
\* keeps every circle-line candidate: a line that cuts the circle at two
\* distinct points yields both, e.g. center (0, 0), radius 10, x0 = 0 yields
\* (0, 10) and (0, -10).
C15_FullCircleKeepsBothPoints ==
    (/\ Called("intersectionLineArcVertical")
     /\ call.args[3] = 0
     /\ call.args[4] = 360
     /\ Discriminant > 0) => result.value = Candidates

\* C16: when the line is tangent to the circle (discriminant 0) and the
\* tangent point lies on the arc, each solver returns exactly one point, e.g.
\* the vertical solver for center (0, 0), radius 10, full arc, x0 = 10
\* returns the single point (10, 0).
C16_TangentYieldsOnePoint ==
    (/\ SolverCalled
     /\ Discriminant = 0
     /\ OnArc(Candidates[1])) => Len(result.value) = 1

\* C17: every point a line-arc solver returns is one of the at most two
\* circle-line candidates whose angle about the center passes isAngleBetween
\* against [arcStart, arcEnd]; the others are dropped and the survivors come
\* first branch first.  For center (0, 0), radius 10, arc [0, 90] and the
\* line y = 0 only (10, 0) is returned.
C17_SolversReturnCandidatesOnArc ==
    SolverCalled =>
        /\ result.value = SelectSeq(Candidates, OnArc)
        /\ (/\ call.fn = "intersectionLineArcHorizontal"
            /\ call.args = <<Vector(0, 0), 10, 0, 90, TRUE, 0>>) =>
                  result.value = <<Vector(10, 0)>>

\* The horizontal solver was called for center (0, 0), radius 10, arc
\* [0, 90] and y0 = 0: of the candidates (10, 0) and (-10, 0) the first is
\* returned.
C17_Witness ==
    /\ call = [fn |-> "intersectionLineArcHorizontal",
               args |-> <<Vector(0, 0), 10, 0, 90, TRUE, 0>>]
    /\ Candidates = <<Vector(10, 0), Vector(-10, 0)>>
    /\ result = Returned(<<Vector(10, 0)>>)

\* C18: no cut or assembly operation throws, and selectCut called with an
\* index that is no position of the history (empty history, index >= length,
\* negative index) leaves the history and the live Cut unchanged.
C18_NoOperationThrows ==
    [][/\ ~thrown'
       /\ \A index \in SelectIndices :
              (index \notin 0..(Len(cuts) - 1) /\ SelectCutAt(index)) =>
                  (cuts' = cuts /\ currentCut' = currentCut)]_vars

\* C19: every entry of the cut history has radius > 0, also when
\* addCurrentCut ran before the first successful updateShapes.
C19_CommittedRadiusPositive ==
    \A j \in 1..Len(cuts) : cuts[j].radius > 0

\* C20: the live Cut is one object for the whole session: the drawing, the
\* cutter assembly and the current-cut arc refer to the Cut the constructor
\* made, and selectCut copies the chosen snapshot's fields into that object
\* rather than making the snapshot the live Cut.
C20_LiveCutIsOneObject ==
    /\ cutRef.drawing = "constructed"
    /\ cutRef.currentCutArc = cutRef.drawing
    /\ cutRef.cutterAssembly = cutRef.drawing
    /\ \A index \in 0..(Len(cuts) - 1) :
           LET after == selectCut(drawing, index)
           IN  /\ after.cutRef = cutRef
               /\ Pose(after.currentCut) = Pose(cuts[index + 1])

\* A snapshot was selected (only selectCut sets wasSaved) and the three
\* holders still refer to the constructor's Cut.
C20_Witness ==
    /\ currentCut.wasSaved
    /\ cutRef = Drawing.cutRef

\* Forms with a field that is no number (parseFloat gives NaN), zero or
\* negative: each of the three fields in turn, and all three at once.
InvalidForms ==
    {[diameter |-> NaN, height |-> Number(80), cutter |-> Number(180)],
     [diameter |-> Number(0), height |-> Number(80), cutter |-> Number(180)],
     [diameter |-> Number(300), height |-> NaN, cutter |-> Number(254)],
     [diameter |-> Number(300), height |-> Number(-80), cutter |-> Number(254)],
     [diameter |-> Number(200), height |-> Number(60), cutter |-> NaN],
     [diameter |-> Number(200), height |-> Number(60), cutter |-> Number(0)],
     [diameter |-> Number(-1), height |-> NaN, cutter |-> Number(-254)]}

\* C21: updateShapes with a diameter, height or cutter diameter that is no
\* number or is <= 0 leaves the whole core state as it was: workpiece
\* dimensions, cutter radius, assembly pose, live Cut, history and the
\* derived flags.
C21_InvalidFormIsRejected ==
    \A form \in InvalidForms : updateShapes(drawing, form) = drawing

\* The cutter was moved and turned and a cut was committed, and the form
\* with an empty diameter field was applied: all of it is still there.
C21_Witness ==
    /\ Len(cuts) = 1
    /\ Pose(currentCut) = <<OtherPosition, -675, 127>>
    /\ cutterAssembly.center = OtherPosition
    /\ updateShapes(drawing, [diameter |-> NaN, height |-> Number(80),
                              cutter |-> Number(180)]) = drawing

\* C22: intersectionLineArcHorizontal called as documented, with y0 as the
\* argument that follows arcEnd, returns only points with y = y0 that lie on
\* the circle of the given center and radius (to the whole unit the root is
\* taken to), for every y0.
C22_HorizontalSolverUsesGivenLine ==
    (Called("intersectionLineArcHorizontal") /\ Len(call.args) = 5) =>
        \A j \in 1..Len(result.value) :
            LET point == result.value[j]
                dx == Abs(point.x - call.args[1].x)
                dy == point.y - call.args[1].y
                r == call.args[2]
            IN  /\ point.y = call.args[5]
                /\ dx * dx + dy * dy <= r * r
                /\ r * r < (dx + 1) * (dx + 1) + dy * dy

\* C23: moveTo(p) applied twice in a row leaves the same pose, live Cut,
\* history and derived flags as applying it once, and rotate(a) applied
\* twice equals rotate(a) applied once.
C23_RepeatedCallsChangeNothing ==
    /\ \A pos \in AssemblyPosSet :
           moveTo(moveTo(drawing, pos), pos) = moveTo(drawing, pos)
    /\ \A angle \in AssemblyAngleSet :
           rotate(rotate(drawing, angle), angle) = rotate(drawing, angle)

\* The cutter stands where moveTo(OtherPosition) and rotate(-675) put it,
\* with a cut in the history, and either call again changes nothing.
C23_Witness ==
    /\ Len(cuts) = 1
    /\ cutterAssembly.center = OtherPosition
    /\ currentCut.rotation = -675
    /\ moveTo(drawing, OtherPosition) = drawing
    /\ rotate(drawing, -675) = drawing

\* The committed cuts of drawing d: its history, and the live Cut if it is
\* marked as taken from the history.
Committed(d) == Len(d.cuts) + (IF d.currentCut.wasSaved THEN 1 ELSE 0)

\* C24: over addCurrentCut, selectCut with a valid index, moveTo, rotate and
\* setRadius the number of committed cuts, len(history) + (1 if the live Cut
\* is marked from-history, else 0), never decreases, and it increases, by
\* exactly one, only on addCurrentCut issued while the live Cut is unmarked.
C24_NoCommittedCutIsLost ==
    /\ Committed(addCurrentCut(drawing)) =
           Committed(drawing) + (IF currentCut.wasSaved THEN 0 ELSE 1)
    /\ \A index \in 0..(Len(cuts) - 1) :
           Committed(selectCut(drawing, index)) = Committed(drawing)
    /\ \A pos \in PosSet : Committed(moveTo(drawing, pos)) = Committed(drawing)
    /\ \A angle \in AngleSet : Committed(rotate(drawing, angle)) = Committed(drawing)
    /\ \A radius \in RadiusSet : Committed(setRadius(drawing, radius)) = Committed(drawing)

\* Two cuts were committed and one of them was selected: one is in the
\* history, the live Cut is marked, and committing it now adds an entry and
\* clears the mark, which leaves the number of committed cuts at two.
C24_Witness ==
    /\ Len(cuts) = 1
    /\ currentCut.wasSaved
    /\ Committed(drawing) = 2
    /\ Len(addCurrentCut(drawing).cuts) = 2
    /\ Committed(addCurrentCut(drawing)) = 2

\* C25: once updateShapes has succeeded, after every operation the live Cut
\* agrees with the pose the assembly shows: the same center, the same
\* radius, and a rotation congruent to the assembly's modulo 360.
C25_LiveCutIsThePoseShown ==
    /\ currentCut.center = cutterAssembly.center
    /\ currentCut.radius = cutterAssembly.cutterRadius
    /\ (currentCut.rotation - cutterAssembly.rotationAngle) % 360 = 0

\* C26: whenever the rest dimension is visible, the signed length it
\* measures from the workpiece's near edge x = 0 to the kerf-offset cutter
\* edge, p.x - cutterRadius - kerf/2, is non-negative.
C26_VisibleRestIsNonNegative ==
    [][(\E pos \in AssemblyPosSet : MoveTo(pos)) =>
           (cutterAssembly'.restDim.visible => cutterAssembly'.restDim.dir.x >= 0)]_vars

=============================================================================
